---- MODULE Spec2Model ----
(***************************************************************************)
(* Model of the command execution subsystem of azure_ml_automation:        *)
(* src/src/azure_ml_automation/helpers/cli_runner.py (class CliRunner).    *)
(*                                                                         *)
(* Spec      the retry loop of CliRunner.run for concurrent run calls on   *)
(*           one runner: the call, the head of a loop iteration, the       *)
(*           backoff sleep and the attempt are one action each; cleanup    *)
(*           calls interleave with them and find the registry empty.       *)
(*                                                                         *)
(* SpecKill  CliRunner._kill_process and CliRunner.cleanup applied to the  *)
(*           registered handle of a process tree, as the timeout handler   *)
(*           (line 194) and cleanup (line 290) apply _kill_process, with   *)
(*           the operating system's processes exiting, dying and forking   *)
(*           concurrently.  No run call gets as far as line 178 (see       *)
(*           create_subprocess_shell below), so tree termination is        *)
(*           checked on the handle it is given.                            *)
(*                                                                         *)
(* SpecCatalog  one caller of the runner's methods (run, the command       *)
(*           helpers, wait_for_pattern, parse_json_output) on a runner     *)
(*           made with any default options in any inherited environment:   *)
(*           the options merge, the environment, the log events and the    *)
(*           polling loop of wait_for_pattern.                             *)
(*                                                                         *)
(* Python values: an Optional[int] field is the sequence <<>> (None) or    *)
(* <<n>>; `a or b` is the operator Or (None and 0 are both falsy).         *)
(***************************************************************************)
EXTENDS Integers, Sequences, FiniteSets, TLC

\* ------------------------------------------------------------------ bounds
\* Largest per-call retries value the callers pass.
MaxRetries == 2
\* How many times _kill_process is invoked on the handle.
MaxKillCalls == 2
\* How many times cleanup is called on the runner.
MaxCleanupCalls == 2
\* How many polls wait_for_pattern has time for before max_wait_time.
MaxPolls == 2

\* ------------------------------------------------------- program constants
\* config.py:80  RetryConfig.max_retries
ConfigMaxRetries == 3
\* config.py:81  RetryConfig.delay (milliseconds)
ConfigRetryDelayMs == 1000

\* The concurrent run calls made on the runner: A with any options object,
\* B with options=None (the runner's defaults), each on any command.
Calls == {"A", "B"}

None == <<>>

\* Python's `a or b` on Optional[int]: a when a is truthy, otherwise b.
Truthy(a) == a # None /\ a # <<0>>
Or(a, b) == IF Truthy(a) THEN a ELSE b

\* What the command line would do if a process were running it.
\*   exit0, exit1: exits by itself with that code before any timeout
\*   hang:         outlives every timeout
Commands == {"exit0", "exit1", "hang"}

\* Python's `a or b` on Optional[str] and on str: "" is falsy too.
TruthyStr(a) == a # None /\ a # <<"">>
OrStr(a, b) == IF TruthyStr(a) THEN a ELSE b

\* The fields of CliOptions and the values the dataclass gives the fields
\* its constructor is not passed (cli_runner.py:30-42).  An Optional[str],
\* the env dict and the test_logger are <<>> (None) or <<value>>.
Fields ==
  {"timeout", "retries", "retry_delay", "cwd", "env", "shell", "encoding",
   "expect_non_zero_exit", "log_output", "test_logger"}
DataclassDefaults ==
  [timeout |-> None, retries |-> None, retry_delay |-> None, cwd |-> None,
   env |-> None, shell |-> TRUE, encoding |-> "utf-8",
   expect_non_zero_exit |-> FALSE, log_output |-> TRUE, test_logger |-> None]

\* CliOptions(**kw): kw maps the fields the caller sets to their values.
CliOptionsOf(kw) ==
  [f \in Fields |-> IF f \in DOMAIN kw THEN kw[f] ELSE DataclassDefaults[f]]

\* CliOptions (cli_runner.py:30-42) with the fields the retry loop reads set.
CliOptions(retries, retry_delay, shell, expect) ==
  [DataclassDefaults EXCEPT !.retries = retries, !.retry_delay = retry_delay,
                            !.shell = shell, !.expect_non_zero_exit = expect]

\* The keys of the environment dicts, and the environment the runner
\* inherits in Spec and SpecKill; a value names the layer it comes from.
EnvKeys == {"K1", "K2"}
InheritedEnv == [k \in {"K1"} |-> "inherited"]

\* A dict as a function from its keys; {**a, **b} (lines 128, 147).
EmptyDict == [k \in {} |-> ""]
Overlay(a, b) ==
  [k \in DOMAIN a \cup DOMAIN b |-> IF k \in DOMAIN b THEN b[k] ELSE a[k]]
\* `env or {}`: None and the empty dict both give the empty dict.
EnvOr(e) == IF e = None THEN EmptyDict ELSE e[1]

\* CliRunner().default_options: CliOptions() with every Optional field None
\* (cli_runner.py:49 and the module-level instance at :470).
DefaultOptions == CliOptions(None, None, TRUE, FALSE)

\* The per-call options objects the callers pass.
RetriesValues == {None} \cup {<<n>> : n \in 0..MaxRetries}
DelayValues == {None, <<0>>, <<2>>}
OptionsValues ==
  {CliOptions(r, d, s, e) :
     r \in RetriesValues, d \in DelayValues, s \in BOOLEAN, e \in BOOLEAN}
\* The options argument of call c: <<>> is options=None.
OptionsArgs(c) ==
  IF c = "A" THEN {<<>>} \cup {<<o>> : o \in OptionsValues} ELSE {<<>>}

\* A merge in which the per-call options win whenever they are given.
merge_with_percall_only(default, opt) ==
  IF opt = <<>> THEN default ELSE opt[1]

\* CliRunner._merge_options (cli_runner.py:118-134) of a runner whose
\* default_options is `default`; opt is <<>> for options=None, else
\* <<options>>.  shell and log_output are bool and never None, so the
\* `is not None` tests of lines 129 and 132 always take the per-call value.
merge_with(default, opt) ==
  IF opt = <<>> THEN default
  ELSE LET o == opt[1] IN
       [timeout |-> Or(o.timeout, default.timeout),
        retries |-> Or(o.retries, default.retries),
        retry_delay |-> Or(o.retry_delay, default.retry_delay),
        cwd |-> OrStr(o.cwd, default.cwd),
        env |-> <<Overlay(EnvOr(default.env), EnvOr(o.env))>>,
        shell |-> o.shell,
        encoding |-> IF o.encoding # "" THEN o.encoding ELSE default.encoding,
        expect_non_zero_exit |-> o.expect_non_zero_exit,
        log_output |-> o.log_output,
        test_logger |-> IF o.test_logger # None THEN o.test_logger
                        ELSE default.test_logger]

\* _merge_options of the module-level runner (line 470).
merge_options(opt) == merge_with(DefaultOptions, opt)

\* cli_runner.py:147  env = {**os.environ, **(options.env or {})}
process_env(environ, merged) == Overlay(environ, EnvOr(merged.env))

\* cli_runner.py:65  retries = merged_options.retries or config.retry.max_retries
resolve_retries(merged) == Or(merged.retries, <<ConfigMaxRetries>>)[1]

\* cli_runner.py:66  retry_delay = merged_options.retry_delay or config.retry.delay // 1000
resolve_retry_delay(merged) ==
  Or(merged.retry_delay, <<ConfigRetryDelayMs \div 1000>>)[1]

\* A backoff whose exponent is the attempt number itself.
backoff_delay_exponent_off(rd, att) == rd * 2^att

\* cli_runner.py:72  delay = retry_delay * (2 ** (attempt - 1))
backoff_delay(rd, att) == rd * 2^(att - 1)

\* A loop that gives up one attempt early.
last_attempt_one_early(att, r) == att + 1 >= r

\* cli_runner.py:113  if attempt == retries: break
last_attempt(att, r) == att = r

\* The value unpacked with `**` into the keyword arguments of the spawn call
\* (cli_runner.py:171): `[]` in shell mode, `[process_args]` otherwise.
spawn_kwargs(shell) ==
  IF shell THEN [type |-> "list", len |-> 0] ELSE [type |-> "list", len |-> 1]

\* The spawn call of cli_runner.py:169-176.  Python evaluates the arguments
\* of a call before the callee runs, and the operand of `**` must be a
\* mapping: a list, empty or not, raises TypeError, so
\* asyncio.create_subprocess_shell is never entered.
create_subprocess_shell(shell) ==
  IF spawn_kwargs(shell).type = "dict" THEN "process" ELSE "TypeError"

\* cli_runner.py:221-231  `except Exception: ...; raise` re-raises the
\* pending error, then `finally: self.processes.discard(process)` runs.
\* When the spawn call raised, the local `process` was never bound and the
\* finally clause raises UnboundLocalError in place of the pending error.
finally_discard(process_bound, pending) ==
  IF process_bound THEN pending ELSE "UnboundLocalError"

\* The process tree behind one handle: the spawned process and the
\* descendants psutil's children(recursive=True) can enumerate.
Parent == "p"
Kids == {"k1", "k2"}
Tree == {Parent} \cup Kids

\* The handle of that process in the registry: what line 178 would have
\* added for the first attempt of call A.
Handle == <<"A", 0>>

\* ------------------------------------------------------------------- state
VARIABLES
  pc,          \* position of each run call
  options,     \* the options argument of the call: <<>> or <<CliOptions>>
  command,     \* what the command of the call would do if run
  merged,      \* merged_options (line 62)
  retries,     \* line 65
  retry_delay, \* line 66
  attempt,     \* loop variable of line 70
  last_error,  \* line 68 / 103
  last_error_attempt, \* the attempt that raised the exception object
               \* last_error refers to; -1 while last_error is None
  result,      \* the CliResult returned: <<>> or <<[exit_code |-> n]>>
  trace,       \* what each call did: its attempts and backoff sleeps, in order
  processes,   \* CliRunner.processes, the in-flight registry (line 50)
  default_options, \* CliRunner.default_options (line 49)
  os_environ,  \* os.environ, the environment the runner inherited
  args,        \* the argument list of each call
  env,         \* the env of line 147 handed to the spawn call: <<>>, <<dict>>
  log,         \* the events each call handed to logger and test_logger
  \* ---- the caller of the command catalog (SpecCatalog)
  entry,       \* the method of the runner the caller called
  kwargs,      \* the fields the caller set in its options object
  caller_options, \* the caller's options object: <<>> (None) or <<object>>
  polls,       \* iterations of the loop of wait_for_pattern begun
  json_out,    \* what parse_json_output gave the caller
  elapsed,     \* max_wait_time has passed since wait_for_pattern began
  \* ---- the process tree _kill_process is applied to (SpecKill)
  alive,       \* pids running in the operating system
  ignoresTerm, \* pids whose program ignores the graceful signal
  denied,      \* pids that may not be signalled (psutil.AccessDenied)
  termed,      \* pids with a graceful signal delivered and not ignored
  returncode,  \* process.returncode of the handle: <<>> (None) or <<code>>
  exitcode,    \* the code the parent ended with, once it has
  kpc,         \* position of the _kill_process invocation
  children,    \* the list `children` enumerated at line 242
  idx,         \* index of the for loops over `children`
  signals,     \* every signal sent, in order: [pid, sig]
  logged,      \* logger.warning / logger.error calls of lines 275, 284
  kcalls,      \* number of _kill_process invocations started
  atCall,      \* alive and returncode when the first invocation started
  forked,      \* descendants created after the first invocation started,
               \* and whether that was before its grace period ended
  cpc,         \* position of the cleanup call
  cleanup_tasks, \* the handles cleanup made a _kill_process task for (289-290)
  ccalls       \* number of cleanup calls started

catalogVars == <<entry, kwargs, caller_options, polls, json_out, elapsed>>
fixedVars == <<default_options, os_environ, catalogVars>>
callVars == <<pc, options, command, merged, retries, retry_delay, attempt,
              last_error, last_error_attempt, result, trace, args, env, log,
              fixedVars>>
runVars == <<callVars, processes>>
cleanupVars == <<cpc, cleanup_tasks, ccalls>>
killVars == <<alive, ignoresTerm, denied, termed, returncode, exitcode, kpc,
              children, idx, signals, logged, kcalls, atCall, forked,
              cleanupVars>>
vars == <<runVars, killVars>>

\* An event handed to a logging collaborator: the module logger or the
\* test_logger of the options; `carries` names the keyword fields of the
\* event, `attempt` is the attempt number it carries (0: none).
LogEvent(sink, level, msg, carries, att) ==
  [sink |-> sink, level |-> level, msg |-> msg, carries |-> carries,
   attempt |-> att]

\* cli_runner.py:73-79  the warning before the backoff sleep of attempt att.
retry_events(tl, att) ==
  IF tl = None THEN <<>>
  ELSE <<LogEvent("test_logger", "warning", "CLI retry attempt",
                  {"command", "args", "attempt"}, att)>>

\* The events of one attempt whose spawn fails: log_cli_command (line 151,
\* logger.py:230-237), test_logger.action (152-158), then test_logger.error
\* in _execute_command (222-228) and in run (104-111, attempt=attempt + 1).
attempt_events(tl, att) ==
  <<LogEvent("logger", "debug", "CLI command", {"command", "args", "cwd"}, 0)>>
  \o (IF tl = None THEN <<>>
      ELSE <<LogEvent("test_logger", "action", "Executing CLI command",
                      {"command", "args", "cwd"}, 0),
             LogEvent("test_logger", "error", "CLI process error",
                      {"command", "args", "error"}, 0),
             LogEvent("test_logger", "error", "CLI command failed on attempt",
                      {"command", "args", "error", "attempt"}, att + 1)>>)

AttemptEvent(i, spawn, error) ==
  [kind |-> "attempt", index |-> i, delay |-> 0, spawn |-> spawn, error |-> error]
SleepEvent(i, d) ==
  [kind |-> "sleep", index |-> i, delay |-> d, spawn |-> "", error |-> ""]

\* No run call has been made.
CallsIdle ==
  /\ pc = [c \in Calls |-> "idle"]
  /\ options = [c \in Calls |-> <<>>]
  /\ command = [c \in Calls |-> "exit0"]
  /\ merged = [c \in Calls |-> DefaultOptions]
  /\ retries = [c \in Calls |-> 0]
  /\ retry_delay = [c \in Calls |-> 0]
  /\ attempt = [c \in Calls |-> 0]
  /\ last_error = [c \in Calls |-> "None"]
  /\ last_error_attempt = [c \in Calls |-> -1]
  /\ result = [c \in Calls |-> <<>>]
  /\ trace = [c \in Calls |-> <<>>]
  /\ args = [c \in Calls |-> <<>>]
  /\ env = [c \in Calls |-> <<>>]
  /\ log = [c \in Calls |-> <<>>]

\* The module-level runner `cli_runner = CliRunner()` (line 470, with 49):
\* default_options is CliOptions().
GlobalRunner == default_options = DefaultOptions /\ os_environ = InheritedEnv

\* No catalog method has been called.
CatalogNone ==
  /\ entry = "" /\ kwargs = EmptyDict /\ caller_options = <<>>
  /\ polls = 0 /\ json_out = "" /\ elapsed = FALSE

\* CliRunner.__init__ (cli_runner.py:48-50): no call started, empty registry.
RunInit == CallsIdle /\ GlobalRunner /\ CatalogNone /\ processes = {}

\* No cleanup call has been made.
CleanupNone == cpc = "idle" /\ cleanup_tasks = {} /\ ccalls = 0

\* No process tree is under termination.
KillNone ==
  /\ alive = {} /\ ignoresTerm = {} /\ denied = {} /\ termed = {}
  /\ returncode = None /\ exitcode = 0
  /\ kpc = "idle" /\ children = <<>> /\ idx = 1
  /\ signals = <<>> /\ logged = <<>> /\ kcalls = 0
  /\ atCall = [alive |-> {}, returncode |-> None]
  /\ forked = [k \in Kids |-> ""]
  /\ CleanupNone

Init == RunInit /\ KillNone

\* run is called (cli_runner.py:52-68): options merged, retries and delay
\* resolved, last_error = None; control is at the head of the for loop.
Run(c) ==
  /\ pc[c] = "idle"
  /\ \E opt \in OptionsArgs(c), cmd \in Commands :
       /\ options' = [options EXCEPT ![c] = opt]
       /\ command' = [command EXCEPT ![c] = cmd]
       /\ merged' = [merged EXCEPT ![c] = merge_with(default_options, opt)]
       /\ retries' = [retries EXCEPT ![c] =
            resolve_retries(merge_with(default_options, opt))]
       /\ retry_delay' = [retry_delay EXCEPT ![c] =
            resolve_retry_delay(merge_with(default_options, opt))]
  /\ args' = [args EXCEPT ![c] = <<>>]
  /\ attempt' = [attempt EXCEPT ![c] = 0]
  /\ last_error' = [last_error EXCEPT ![c] = "None"]
  /\ last_error_attempt' = [last_error_attempt EXCEPT ![c] = -1]
  /\ pc' = [pc EXCEPT ![c] = "loop"]
  /\ UNCHANGED <<result, trace, processes, env, log, fixedVars, killVars>>

\* Head of one loop iteration (cli_runner.py:70-80): attempt 0 goes straight
\* to the try block, a later attempt first awaits asyncio.sleep(delay).
\* When range(retries + 1) is exhausted the loop ends and line 116 raises.
LoopHead(c) ==
  /\ pc[c] = "loop"
  /\ IF attempt[c] \notin 0..retries[c]
     THEN /\ pc' = [pc EXCEPT ![c] = "raised"]
          /\ UNCHANGED <<trace, log>>
     ELSE IF attempt[c] > 0
     THEN /\ trace' = [trace EXCEPT ![c] =
                 Append(@, SleepEvent(attempt[c],
                                      backoff_delay(retry_delay[c], attempt[c])))]
          /\ log' = [log EXCEPT ![c] =
                 @ \o retry_events(merged[c].test_logger, attempt[c])]
          /\ pc' = [pc EXCEPT ![c] = "sleeping"]
     ELSE /\ pc' = [pc EXCEPT ![c] = "try"]
          /\ UNCHANGED <<trace, log>>
  /\ UNCHANGED <<options, command, merged, retries, retry_delay, attempt,
                 last_error, last_error_attempt, result, processes, args, env,
                 fixedVars, killVars>>

\* A backoff sleep that does not end.
Wake_never(c) ==
  /\ pc[c] = "sleeping"
  /\ UNCHANGED vars

\* asyncio.sleep(delay) of line 80 completes.
Wake(c) ==
  /\ pc[c] = "sleeping"
  /\ pc' = [pc EXCEPT ![c] = "try"]
  /\ UNCHANGED <<options, command, merged, retries, retry_delay, attempt,
                 last_error, last_error_attempt, result, trace, processes,
                 args, env, log, fixedVars, killVars>>

\* A run whose handler catches the cancellation like any failure and goes
\* on to the next attempt.
Cancel_swallowed(c) ==
  /\ pc[c] = "sleeping"
  /\ pc' = [pc EXCEPT ![c] = "loop"]
  /\ last_error' = [last_error EXCEPT ![c] = "CancelledError"]
  /\ last_error_attempt' = [last_error_attempt EXCEPT ![c] = attempt[c]]
  /\ attempt' = [attempt EXCEPT ![c] = @ + 1]
  /\ UNCHANGED <<options, command, merged, retries, retry_delay, result,
                 trace, processes, args, env, log, fixedVars, killVars>>

\* The caller cancels the task while it is suspended in asyncio.sleep (line
\* 80, the only await a call ever suspends at): CancelledError is raised
\* outside the try block of line 82 and leaves run.
Cancel(c) ==
  /\ pc[c] = "sleeping"
  /\ pc' = [pc EXCEPT ![c] = "cancelled"]
  /\ UNCHANGED <<options, command, merged, retries, retry_delay, attempt,
                 last_error, last_error_attempt, result, trace, processes,
                 args, env, log, fixedVars, killVars>>

\* An attempt that registers a process and goes on without waiting for it.
Try_without_waiting(c) ==
  /\ pc[c] = "try"
  /\ processes' = processes \cup {<<c, attempt[c]>>}
  /\ trace' = [trace EXCEPT ![c] =
        Append(@, AttemptEvent(attempt[c], "process", ""))]
  /\ IF last_attempt(attempt[c], retries[c])
     THEN /\ pc' = [pc EXCEPT ![c] = "raised"]
          /\ UNCHANGED attempt
     ELSE /\ pc' = [pc EXCEPT ![c] = "loop"]
          /\ attempt' = [attempt EXCEPT ![c] = @ + 1]
  /\ UNCHANGED <<options, command, merged, retries, retry_delay, last_error,
                 last_error_attempt, result, args, env, log, fixedVars,
                 killVars>>

\* One attempt (cli_runner.py:82-114 with _execute_command, 136-231): the
\* environment is prepared and the command logged (146-158).
\* The spawn call raises before any await, so the attempt is one step: the
\* error leaving _execute_command is caught at line 102, and the loop either
\* breaks and raises last_error (113-116) or goes to the next iteration.
\* Were a process returned, line 178 would register it and the attempt
\* would wait for it (line 182).
Try(c) ==
  /\ pc[c] = "try"
  /\ env' = [env EXCEPT ![c] = <<process_env(os_environ, merged[c])>>]
  /\ LET spawn == create_subprocess_shell(merged[c].shell)
         error == finally_discard(spawn = "process", spawn)
         events == attempt_events(merged[c].test_logger, attempt[c])
     IN IF spawn = "process"
        THEN /\ processes' = processes \cup {<<c, attempt[c]>>}
             /\ pc' = [pc EXCEPT ![c] = "waiting"]
             /\ trace' = [trace EXCEPT ![c] =
                   Append(@, AttemptEvent(attempt[c], spawn, ""))]
             /\ log' = [log EXCEPT ![c] =
                   @ \o SubSeq(events, 1, (Len(events) + 1) \div 2)]
             /\ UNCHANGED <<attempt, last_error, last_error_attempt>>
        ELSE /\ trace' = [trace EXCEPT ![c] =
                   Append(@, AttemptEvent(attempt[c], spawn, error))]
             /\ log' = [log EXCEPT ![c] = @ \o events]
             /\ last_error' = [last_error EXCEPT ![c] = error]
             /\ last_error_attempt' =
                  [last_error_attempt EXCEPT ![c] = attempt[c]]
             /\ IF last_attempt(attempt[c], retries[c])
                THEN /\ pc' = [pc EXCEPT ![c] = "raised"]
                     /\ UNCHANGED attempt
                ELSE /\ pc' = [pc EXCEPT ![c] = "loop"]
                     /\ attempt' = [attempt EXCEPT ![c] = @ + 1]
             /\ UNCHANGED processes
  /\ UNCHANGED <<options, command, merged, retries, retry_delay, result,
                 args, fixedVars, killVars>>

\* A run that raises the generic failure whatever the attempts raised.
raised_error_generic(c) ==
  "RuntimeError: CLI command failed after all retries"

\* cli_runner.py:116  raise last_error or RuntimeError(...): the failure a
\* call at "raised" leaves run with.
raised_error(c) ==
  IF last_error[c] = "None"
  THEN "RuntimeError: CLI command failed after all retries"
  ELSE last_error[c]

\* ------------------------------------------------------- tree termination
\* The orders in which an enumeration can list the set S.
Orders(S) ==
  {q \in [1..Cardinality(S) -> S] : \A i, j \in DOMAIN q : i # j => q[i] # q[j]}

\* parent.children(recursive=True) (cli_runner.py:242): the running
\* descendants of a running parent.  The descendants of a parent that has
\* exited were re-parented and are no longer its children.
enumerate_children(running) ==
  IF Parent \in running THEN Orders(running \cap Kids) ELSE {<<>>}

\* A _kill_process without the early return of line 235.
already_terminated_never(rc) == FALSE

\* cli_runner.py:235  if process.returncode is not None: return
already_terminated(rc) == rc # None

\* The handle and tree _kill_process is given: any part of the tree may be
\* running; the event loop may or may not have seen an exited parent yet.
KillInput ==
  /\ alive \in SUBSET Tree
  /\ ignoresTerm \in SUBSET Tree
  /\ denied \in SUBSET Tree
  /\ termed = {}
  /\ exitcode = 0
  /\ returncode \in (IF Parent \in alive THEN {None} ELSE {None, <<0>>})
  /\ kpc = "idle" /\ children = <<>> /\ idx = 1
  /\ signals = <<>> /\ logged = <<>> /\ kcalls = 0
  /\ atCall = [alive |-> {}, returncode |-> None]
  /\ forked = [k \in Kids |-> ""]
  /\ CleanupNone

\* A _kill_process without the handler of line 274: the error leaves it.
ToFallback_unhandled ==
  /\ logged' = logged
  /\ kpc' = "raised"

\* Entering `except Exception` of line 274: the warning of line 275.
ToFallback ==
  /\ logged' = Append(logged, "warning: Failed to kill process tree")
  /\ kpc' = "fallback"

\* _kill_process is called (cli_runner.py:233-242): return at once when the
\* handle has a returncode, else look the pid up and enumerate its children.
\* psutil.Process(pid) raises NoSuchProcess when the parent has exited and
\* was already reaped (the handle not yet told): the outer except takes it.
KillStart ==
  /\ \/ kpc = "pending"
     \/ kpc \in {"idle", "done"} /\ cpc # "gathering"
  /\ kcalls < MaxKillCalls
  /\ kcalls' = kcalls + 1
  /\ atCall' = IF kcalls = 0
               THEN [alive |-> alive, returncode |-> returncode] ELSE atCall
  /\ \/ /\ already_terminated(returncode)
        /\ kpc' = "done"
        /\ UNCHANGED <<children, idx, logged>>
     \/ /\ ~already_terminated(returncode)
        /\ children' \in enumerate_children(alive)
        /\ idx' = 1
        /\ kpc' = "term_children"
        /\ UNCHANGED logged
     \/ /\ ~already_terminated(returncode)
        /\ Parent \notin alive
        /\ ToFallback
        /\ UNCHANGED <<children, idx>>
  /\ UNCHANGED <<alive, ignoresTerm, denied, termed, returncode, exitcode,
                 signals, runVars, forked,
                 cleanupVars>>

\* One iteration of the loop of lines 245-249: child.terminate().
\* NoSuchProcess is passed over; any other error leaves the try block.
TermChild ==
  /\ kpc = "term_children"
  /\ idx <= Len(children)
  /\ LET c == children[idx] IN
       IF c \notin alive
       THEN /\ idx' = idx + 1
            /\ UNCHANGED <<kpc, termed, signals, logged>>
       ELSE IF c \in denied
       THEN /\ ToFallback
            /\ UNCHANGED <<idx, termed, signals>>
       ELSE /\ signals' = Append(signals, [pid |-> c, sig |-> "SIGTERM"])
            /\ termed' = termed \cup ({c} \ ignoresTerm)
            /\ idx' = idx + 1
            /\ UNCHANGED <<kpc, logged>>
  /\ UNCHANGED <<alive, ignoresTerm, denied, returncode, exitcode, children,
                 kcalls, atCall, runVars, forked,
                 cleanupVars>>

\* parent.terminate() (lines 252-255), then the await of line 258.
TermParent ==
  /\ kpc = "term_children"
  /\ idx > Len(children)
  /\ IF Parent \notin alive
     THEN /\ kpc' = "grace"
          /\ UNCHANGED <<termed, signals, logged>>
     ELSE IF Parent \in denied
     THEN /\ ToFallback
          /\ UNCHANGED <<termed, signals>>
     ELSE /\ signals' = Append(signals, [pid |-> Parent, sig |-> "SIGTERM"])
          /\ termed' = termed \cup ({Parent} \ ignoresTerm)
          /\ kpc' = "grace"
          /\ UNCHANGED logged
  /\ UNCHANGED <<alive, ignoresTerm, denied, returncode, exitcode, children,
                 idx, kcalls, atCall, runVars, forked,
                 cleanupVars>>

\* asyncio.sleep(2) of line 258 completes.
GraceDone ==
  /\ kpc = "grace"
  /\ kpc' = "kill_children"
  /\ idx' = 1
  /\ UNCHANGED <<alive, ignoresTerm, denied, termed, returncode, exitcode,
                 children, signals, logged, kcalls, atCall, runVars, forked,
                 cleanupVars>>

\* One iteration of the loop of lines 261-266 over the same list
\* `children`: child.kill() if child.is_running().
KillChild ==
  /\ kpc = "kill_children"
  /\ idx <= Len(children)
  /\ LET c == children[idx] IN
       IF c \notin alive
       THEN /\ idx' = idx + 1
            /\ UNCHANGED <<kpc, alive, signals, logged>>
       ELSE IF c \in denied
       THEN /\ ToFallback
            /\ UNCHANGED <<idx, alive, signals>>
       ELSE /\ signals' = Append(signals, [pid |-> c, sig |-> "SIGKILL"])
            /\ alive' = alive \ {c}
            /\ idx' = idx + 1
            /\ UNCHANGED <<kpc, logged>>
  /\ UNCHANGED <<ignoresTerm, denied, termed, returncode, exitcode, children,
                 kcalls, atCall, runVars, forked,
                 cleanupVars>>

\* parent.kill() if parent.is_running() (lines 268-272); the function
\* returns.
KillParent ==
  /\ kpc = "kill_children"
  /\ idx > Len(children)
  /\ IF Parent \notin alive
     THEN /\ kpc' = "done"
          /\ UNCHANGED <<alive, exitcode, signals, logged>>
     ELSE IF Parent \in denied
     THEN /\ ToFallback
          /\ UNCHANGED <<alive, exitcode, signals>>
     ELSE /\ signals' = Append(signals, [pid |-> Parent, sig |-> "SIGKILL"])
          /\ alive' = alive \ {Parent}
          /\ exitcode' = -9
          /\ kpc' = "done"
          /\ UNCHANGED logged
  /\ UNCHANGED <<ignoresTerm, denied, termed, returncode, children, idx,
                 kcalls, atCall, runVars, forked,
                 cleanupVars>>

\* The fallback of lines 277-280: process.terminate() on the handle, then
\* the await of line 280.  The handle raises ProcessLookupError once its
\* transport is closed (the parent's exit seen and its pipes at end of
\* file) and PermissionError for a process it may not signal: line 283
\* catches both and line 284 logs them.  A handle with a returncode whose
\* transport is still open, or whose parent is gone, sends nothing.
FallbackTerm ==
  /\ kpc = "fallback"
  /\ \/ /\ returncode # None \/ (Parent \in alive /\ Parent \in denied)
        /\ logged' = Append(logged, "error: Failed to kill process")
        /\ kpc' = "done"
        /\ UNCHANGED <<termed, signals>>
     \/ /\ ~(Parent \in alive /\ Parent \in denied)
        /\ IF returncode = None /\ Parent \in alive
           THEN /\ signals' = Append(signals, [pid |-> Parent, sig |-> "SIGTERM"])
                /\ termed' = termed \cup ({Parent} \ ignoresTerm)
           ELSE UNCHANGED <<termed, signals>>
        /\ kpc' = "fallback_sleep"
        /\ UNCHANGED logged
  /\ UNCHANGED <<alive, ignoresTerm, denied, returncode, exitcode, children,
                 idx, kcalls, atCall, runVars, forked,
                 cleanupVars>>

\* asyncio.sleep(1) completes; lines 281-282: process.kill() if the handle
\* still has no returncode.
FallbackKill ==
  /\ kpc = "fallback_sleep"
  /\ kpc' = "done"
  /\ IF returncode = None /\ Parent \in alive
     THEN /\ signals' = Append(signals, [pid |-> Parent, sig |-> "SIGKILL"])
          /\ alive' = alive \ {Parent}
          /\ exitcode' = -9
     ELSE UNCHANGED <<alive, exitcode, signals>>
  /\ UNCHANGED <<ignoresTerm, denied, termed, returncode, children, idx,
                 logged, kcalls, atCall, runVars, forked,
                 cleanupVars>>

\* Operating system: a process of the tree ends by itself.
Exit(p) ==
  /\ p \in alive
  /\ alive' = alive \ {p}
  /\ exitcode' = IF p = Parent THEN 0 ELSE exitcode
  /\ UNCHANGED <<ignoresTerm, denied, termed, returncode, kpc, children, idx,
                 signals, logged, kcalls, atCall, runVars, forked,
                 cleanupVars>>

\* Operating system: a process that got the graceful signal, and does not
\* ignore it, dies of it.
Die(p) ==
  /\ p \in alive \cap termed
  /\ alive' = alive \ {p}
  /\ exitcode' = IF p = Parent THEN -15 ELSE exitcode
  /\ UNCHANGED <<ignoresTerm, denied, termed, returncode, kpc, children, idx,
                 signals, logged, kcalls, atCall, runVars, forked,
                 cleanupVars>>

\* Event loop: while _kill_process is not running or is suspended in a
\* sleep, the child watcher reports the parent's exit and the handle gets
\* its returncode.
LoopObserve ==
  /\ kpc \in {"idle", "pending", "grace", "fallback_sleep", "done"}
  /\ returncode = None
  /\ Parent \notin alive
  /\ returncode' = <<exitcode>>
  /\ UNCHANGED <<alive, ignoresTerm, denied, termed, exitcode, kpc, children,
                 idx, signals, logged, kcalls, atCall, runVars, forked,
                 cleanupVars>>

\* Operating system: while an invocation of _kill_process is in progress a
\* running process of the tree creates a descendant that did not exist
\* when the first invocation began.  `forked` keeps whether that was before
\* the grace period of line 258 ended.
Fork(k) ==
  /\ kcalls >= 1
  /\ kpc \in {"term_children", "grace", "kill_children", "fallback",
              "fallback_sleep"}
  /\ k \in Kids \ (alive \cup atCall.alive)
  /\ forked[k] = ""
  /\ alive \cap Tree # {}
  /\ alive' = alive \cup {k}
  /\ forked' = [forked EXCEPT ![k] =
                  IF kcalls = 1 /\ kpc \in {"term_children", "grace"}
                  THEN "before_kill" ELSE "later"]
  /\ UNCHANGED <<ignoresTerm, denied, termed, returncode, exitcode, kpc,
                 children, idx, signals, logged, kcalls, atCall, runVars,
                 cleanupVars>>

\* cleanup with an empty registry (cli_runner.py:286-295): no task is made,
\* nothing is awaited, the registry is cleared; the call returns at once.
CleanupEmpty ==
  /\ cpc \in {"idle", "returned"}
  /\ ccalls < MaxCleanupCalls
  /\ processes = {}
  /\ cleanup_tasks' = {}
  /\ processes' = {}
  /\ cpc' = "returned"
  /\ ccalls' = ccalls + 1
  /\ UNCHANGED <<callVars, alive, ignoresTerm, denied, termed, returncode,
                 exitcode, kpc, children, idx, signals, logged, kcalls,
                 atCall, forked>>

\* cleanup with a process in the registry (lines 286-293): one
\* _kill_process task per handle of list(self.processes), then the await
\* of asyncio.gather, during which the tasks run.
CleanupGather ==
  /\ cpc \in {"idle", "returned"}
  /\ ccalls < MaxCleanupCalls
  /\ processes # {}
  /\ kpc \in {"idle", "done"}
  /\ kcalls < MaxKillCalls
  /\ cleanup_tasks' = processes
  /\ kpc' = "pending"
  /\ cpc' = "gathering"
  /\ ccalls' = ccalls + 1
  /\ UNCHANGED <<runVars, alive, ignoresTerm, denied, termed, returncode,
                 exitcode, children, idx, signals, logged, kcalls, atCall,
                 forked>>

\* asyncio.gather(..., return_exceptions=True) has the outcome of every
\* task, a result or an exception alike (line 293); self.processes.clear()
\* (line 295); cleanup returns.
CleanupReturn ==
  /\ cpc = "gathering"
  /\ kpc \in {"done", "raised"}
  /\ processes' = {}
  /\ cpc' = "returned"
  /\ UNCHANGED <<callVars, alive, ignoresTerm, denied, termed, returncode,
                 exitcode, kpc, children, idx, signals, logged, kcalls,
                 atCall, forked, cleanup_tasks, ccalls>>

NextKill ==
  \/ KillStart \/ TermChild \/ TermParent \/ GraceDone \/ KillChild
  \/ KillParent \/ FallbackTerm \/ FallbackKill \/ LoopObserve
  \/ CleanupEmpty \/ CleanupGather \/ CleanupReturn
  \/ \E p \in Tree : Exit(p) \/ Die(p)
  \/ \E k \in Kids : Fork(k)

\* What the text of a failure carries, by the place that raises it:
\*   line 86-88  f"Command failed with exit code {exit_code}: {stderr}"
\*   line 195    f"Command timed out after {timeout}s"
\*   line 116    "CLI command failed after all retries"
\*   line 171    TypeError of the `**` unpacking: names the type unpacked
\*   line 231    UnboundLocalError: names the local variable
\* run re-raises the exception object as it is (line 116) and adds nothing.
error_message_parts(error) ==
  IF error = "RuntimeError: Command failed with exit code"
  THEN {"exit_code", "stderr"}
  ELSE IF error = "RuntimeError: Command timed out"
  THEN {"timeout"}
  ELSE {}

\* ---------------------------------------------------------- specifications
\* The runner as its callers drive it: concurrent run calls, and cleanup
\* calls, which find the registry empty.
Next ==
  \/ \E c \in Calls : Run(c) \/ LoopHead(c) \/ Wake(c) \/ Cancel(c) \/ Try(c)
  \/ CleanupEmpty

Spec == Init /\ [][Next]_vars

\* -------------------------------------------------------- command catalog
\* The caller of the catalog is call A.
Caller == "A"

\* The methods of the runner the caller calls: run itself, a helper that
\* only assembles a command (az_login, az_set_subscription, az_ml_compute_*,
\* az_ml_job_create and run_powershell* all have the body of
\* az_ml_compute_show, lines 371-389), az_login_service_principal and
\* wait_for_pattern.
Entries ==
  {"run", "az_ml_compute_show", "az_login_service_principal",
   "wait_for_pattern"}

\* The argument list the method hands to run (lines 313-321, 380-387).
args_of(h) ==
  IF h = "az_login_service_principal"
  THEN <<"login", "--service-principal", "-u", "client_id",
         "-p", "client_secret", "--tenant", "tenant_id">>
  ELSE IF h = "az_ml_compute_show"
  THEN <<"ml", "compute", "show", "--output", "json">>
  ELSE <<"arg">>

\* What the method does to the options before it calls run:
\*   lines 310-311  safe_options = options or CliOptions()
\*                  safe_options.log_output = False
\*   lines 443-444  safe_options = options or CliOptions()
\*                  safe_options.retries = 0
\* `options or CliOptions()` is the caller's object itself when the caller
\* passed one, so the assignment is made to the caller's object.
safe_options(h, opt) ==
  LET o == IF opt = <<>> THEN CliOptionsOf(EmptyDict) ELSE opt[1] IN
    IF h = "az_login_service_principal"
    THEN <<[o EXCEPT !.log_output = FALSE]>>
    ELSE IF h = "wait_for_pattern"
    THEN <<[o EXCEPT !.retries = <<0>>]>>
    ELSE opt

\* The values a caller gives a field; a string value names its layer
\* ("percall", "default"), so that a merged value tells where it came from.
Dicts(layer) == {[k \in S |-> layer] : S \in SUBSET EnvKeys}
FieldValues(f, layer) ==
  CASE f \in {"timeout", "retries", "retry_delay"} -> {<<0>>, <<1>>}
    [] f = "cwd" -> {<<"">>, <<layer>>}
    [] f = "env" -> {<<d>> : d \in Dicts(layer)}
    [] f = "encoding" -> {"", layer}
    [] f = "test_logger" -> {<<layer>>}
    [] OTHER -> BOOLEAN

\* Constructor arguments that set at most one field.
KwargsOne(layer) ==
  {EmptyDict} \cup
  UNION {{[g \in {f} |-> v] : v \in FieldValues(f, layer)} : f \in Fields}
\* The caller's constructor arguments: at most one field, with or without
\* a test_logger.
CallerKwargs ==
  KwargsOne("percall") \cup
  {Overlay(kw, [g \in {"test_logger"} |-> <<"percall">>]) :
     kw \in KwargsOne("percall")}

\* json.loads on the outputs the caller may hand to parse_json_output
\* (line 463): <<>> stands for JSONDecodeError.
StdoutValues == {"{}", "[1, 2]", "", "az: error"}
json_loads(stdout) ==
  IF stdout \in {"{}", "[1, 2]"} THEN <<"value">> ELSE <<>>

\* CliRunner.parse_json_output (lines 460-466): the parsed value, or
\* RuntimeError(f"Invalid JSON output: {error}").
parse_json_output(stdout) ==
  IF json_loads(stdout) # <<>> THEN "value"
  ELSE "RuntimeError: Invalid JSON output"

\* The class of a failure, what `except` clauses and isinstance tell
\* failures apart by.
exception_class(error) ==
  IF error \in {"RuntimeError: Invalid JSON output",
                "RuntimeError: Command failed with exit code",
                "RuntimeError: Command timed out",
                "RuntimeError: CLI command failed after all retries",
                "RuntimeError: Pattern not found"}
  THEN "RuntimeError"
  ELSE error

\* A runner made with any default options, in any inherited environment.
CatalogInput ==
  /\ default_options \in {CliOptionsOf(kw) : kw \in KwargsOne("default")}
  /\ os_environ \in Dicts("inherited")

\* The entry into run (lines 52-68) with the options object run_opt, as in
\* Run: merge, resolve, and go to the head of the loop.
EnterRun(c, run_opt) ==
  /\ options' = [options EXCEPT ![c] = run_opt]
  /\ merged' = [merged EXCEPT ![c] = merge_with(default_options, run_opt)]
  /\ retries' = [retries EXCEPT ![c] =
       resolve_retries(merge_with(default_options, run_opt))]
  /\ retry_delay' = [retry_delay EXCEPT ![c] =
       resolve_retry_delay(merge_with(default_options, run_opt))]
  /\ attempt' = [attempt EXCEPT ![c] = 0]
  /\ last_error' = [last_error EXCEPT ![c] = "None"]
  /\ last_error_attempt' = [last_error_attempt EXCEPT ![c] = -1]
  /\ pc' = [pc EXCEPT ![c] = "loop"]

\* The caller calls method h of the runner with options=None or with an
\* options object it made; the method prepares arguments and options and
\* calls run; wait_for_pattern takes the start time and prepares its
\* options (lines 439-444) and comes to the head of its loop.
CallCatalog(h) ==
  /\ pc[Caller] = "idle"
  /\ entry = "" /\ json_out = ""
  /\ \E kw \in CallerKwargs, given \in BOOLEAN :
       LET opt == IF given THEN <<CliOptionsOf(kw)>> ELSE <<>> IN
         /\ given \/ kw = EmptyDict
         /\ kwargs' = kw
         /\ caller_options' =
              IF given THEN safe_options(h, opt) ELSE <<>>
         /\ IF h = "wait_for_pattern"
            THEN /\ options' = [options EXCEPT ![Caller] = safe_options(h, opt)]
                 /\ pc' = [pc EXCEPT ![Caller] = "poll_head"]
                 /\ UNCHANGED <<merged, retries, retry_delay, attempt,
                                last_error, last_error_attempt>>
            ELSE EnterRun(Caller, safe_options(h, opt))
  /\ entry' = h
  /\ args' = [args EXCEPT ![Caller] = args_of(h)]
  /\ UNCHANGED <<command, result, trace, env, log, processes,
                 default_options, os_environ, polls, json_out, elapsed,
                 killVars>>

\* max_wait_time seconds have passed since wait_for_pattern took its start
\* time (line 439); max_wait_time is any number, so this may be at once.
Elapse ==
  /\ entry = "wait_for_pattern"
  /\ pc[Caller] # "pattern_not_found"
  /\ ~elapsed
  /\ elapsed' = TRUE
  /\ UNCHANGED <<pc, options, command, merged, retries, retry_delay, attempt,
                 last_error, last_error_attempt, result, trace, processes,
                 args, env, log, default_options, os_environ, entry, kwargs,
                 caller_options, polls, json_out, killVars>>

\* wait_for_pattern, lines 446-456: the poll's run call has raised, the
\* failure is passed over (452-454) and the loop sleeps 2 s (456).
PollFailed ==
  /\ entry = "wait_for_pattern"
  /\ pc[Caller] = "raised"
  /\ pc' = [pc EXCEPT ![Caller] = "poll_sleep"]
  /\ UNCHANGED <<options, command, merged, retries, retry_delay, attempt,
                 last_error, last_error_attempt, result, trace, processes,
                 args, env, log, fixedVars, killVars>>

\* A loop of wait_for_pattern that goes on polling after max_wait_time.
PollNext_past_deadline ==
  /\ pc[Caller] \in {"poll_head", "poll_sleep"}
  /\ IF polls >= MaxPolls
     THEN /\ pc' = [pc EXCEPT ![Caller] = "pattern_not_found"]
          /\ UNCHANGED <<options, merged, retries, retry_delay, attempt,
                         last_error, last_error_attempt, polls>>
     ELSE /\ polls' = polls + 1
          /\ EnterRun(Caller, options[Caller])
  /\ UNCHANGED <<command, result, trace, processes, args, env, log,
                 default_options, os_environ, entry, kwargs, caller_options,
                 json_out, elapsed, killVars>>

\* wait_for_pattern, lines 446-448 and 458, the head of the loop, reached
\* from the call and after each sleep: while less than max_wait_time has
\* passed the next poll calls run with the same safe_options, otherwise the
\* pattern-not-found failure is raised.
PollNext ==
  /\ pc[Caller] \in {"poll_head", "poll_sleep"}
  /\ IF elapsed
     THEN /\ pc' = [pc EXCEPT ![Caller] = "pattern_not_found"]
          /\ UNCHANGED <<options, merged, retries, retry_delay, attempt,
                         last_error, last_error_attempt, polls>>
     ELSE /\ polls < MaxPolls
          /\ polls' = polls + 1
          /\ EnterRun(Caller, options[Caller])
  /\ UNCHANGED <<command, result, trace, processes, args, env, log,
                 default_options, os_environ, entry, kwargs, caller_options,
                 json_out, elapsed, killVars>>

\* The caller hands a CliResult with the given stdout to
\* parse_json_output (lines 460-466); a decode failure is logged with the
\* stdout (line 465) and raised.
ParseJson(stdout) ==
  /\ pc[Caller] = "idle"
  /\ entry = "" /\ json_out = ""
  /\ json_out' = parse_json_output(stdout)
  /\ entry' = "parse_json_output"
  /\ log' = [log EXCEPT ![Caller] =
       IF json_loads(stdout) # <<>> THEN @
       ELSE Append(@, LogEvent("logger", "error",
                               "Failed to parse JSON output",
                               {"stdout", "error"}, 0))]
  /\ UNCHANGED <<pc, options, command, merged, retries, retry_delay, attempt,
                 last_error, last_error_attempt, result, trace, processes,
                 args, env, default_options, os_environ, kwargs,
                 caller_options, polls, elapsed, killVars>>

NextCatalog ==
  \/ \E h \in Entries : CallCatalog(h)
  \/ LoopHead(Caller) \/ Wake(Caller) \/ Try(Caller)
  \/ PollFailed \/ PollNext \/ Elapse
  \/ \E stdout \in StdoutValues : ParseJson(stdout)

\* The caller of the command catalog: one call at a time on a runner of its
\* own making.
InitCatalog ==
  CallsIdle /\ CatalogInput /\ CatalogNone /\ processes = {} /\ KillNone

SpecCatalog == InitCatalog /\ [][NextCatalog]_vars

\* The runner tree termination is applied to: no run call in progress, the
\* handle of the tree in the registry.
\* The run calls under the scheduling of the event loop: a coroutine that
\* can go on is run (the loop head and the attempt have no await that
\* suspends them), and an asyncio.sleep with a finite delay completes unless
\* the task is cancelled first.
Fairness ==
  \A c \in Calls :
    WF_vars(LoopHead(c)) /\ WF_vars(Wake(c)) /\ WF_vars(Try(c))
SpecLive == Init /\ [][Next]_vars /\ Fairness

InitKill ==
  CallsIdle /\ GlobalRunner /\ CatalogNone /\ processes = {Handle} /\ KillInput

SpecKill == InitKill /\ [][NextKill]_vars

\* ------------------------------------------------------------------ claims
\* The attempts of call c, in order, and its backoff sleeps, in order.
AttemptsOf(c) == SelectSeq(trace[c], LAMBDA e : e.kind = "attempt")
SleepsOf(c) == SelectSeq(trace[c], LAMBDA e : e.kind = "sleep")
\* The per-call options of c give max_retries = n.
GivenRetries(c, n) == options[c] # <<>> /\ options[c][1].retries = <<n>>
\* The exit code the command of c ends with when a process runs it.
ExitCodeOf(cmd) == IF cmd = "exit0" THEN 0 ELSE 1

\* C1: for every max_retries N >= 0 given in the per-call options, a run
\* whose attempts all fail starts exactly N+1 attempts and then fails: it
\* never starts more than N+1, and it has started N+1 when it raises.
C1_AttemptsAreRetriesPlusOne ==
  \A c \in Calls : \A n \in 0..MaxRetries :
    GivenRetries(c, n) =>
      /\ Len(AttemptsOf(c)) <= n + 1
      /\ pc[c] = "raised" => Len(AttemptsOf(c)) = n + 1

\* C2: a command whose process exits 0, run without expect_non_zero_exit,
\* is returned as a CliResult with exit_code 0 by the first attempt, with no
\* backoff sleep and no second attempt, whatever max_retries is.
C2_ExitZeroReturnsAtOnce ==
  \A c \in Calls :
    (command[c] = "exit0" /\ ~merged[c].expect_non_zero_exit
       /\ Len(trace[c]) >= 1) =>
      /\ pc[c] = "returned"
      /\ result[c] = <<[exit_code |-> 0]>>
      /\ Len(AttemptsOf(c)) = 1
      /\ SleepsOf(c) = <<>>

\* C7: attempt 0 starts without a delay, and the sleep between failed
\* attempt i and attempt i+1 is exactly retry_delay * 2^i (retry_delay as
\* resolved at line 66), so the delays of one call never decrease.
C7_BackoffDoubles ==
  \A c \in Calls :
    /\ trace[c] # <<>> =>
         trace[c][1].kind = "attempt" /\ trace[c][1].index = 0
    /\ \A j \in DOMAIN trace[c] :
         trace[c][j].kind = "sleep" =>
           /\ j > 1
           /\ trace[c][j - 1].kind = "attempt"
           /\ trace[c][j].delay = retry_delay[c] * 2^(trace[c][j - 1].index)
           /\ j < Len(trace[c]) =>
                /\ trace[c][j + 1].kind = "attempt"
                /\ trace[c][j + 1].index = trace[c][j - 1].index + 1
    /\ \A j, k \in DOMAIN SleepsOf(c) :
         j <= k => SleepsOf(c)[j].delay <= SleepsOf(c)[k].delay

\* C7 witness: a call has slept twice, with different delays, and started
\* the attempt after the second sleep.
C7_Witness ==
  \E c \in Calls :
    /\ Len(SleepsOf(c)) >= 2
    /\ SleepsOf(c)[1].delay < SleepsOf(c)[2].delay
    /\ Len(AttemptsOf(c)) >= 3

\* C8: with expect_non_zero_exit set, an attempt whose process completes
\* before the timeout is returned as a CliResult carrying the exit code of
\* the process, whatever it is, and no retry follows.
C8_AnyExitCodeIsReturned ==
  \A c \in Calls :
    (merged[c].expect_non_zero_exit /\ command[c] \in {"exit0", "exit1"}
       /\ Len(trace[c]) >= 1) =>
      /\ pc[c] = "returned"
      /\ result[c] = <<[exit_code |-> ExitCodeOf(command[c])]>>
      /\ Len(trace[c]) = 1

\* C9: with max_retries = 2 and a command that outlives the timeout, three
\* attempts are made, each ends by timeout, and the failure raised at the
\* end is the timeout failure.
C9_TimeoutsAreRetried ==
  \A c \in Calls :
    (GivenRetries(c, 2) /\ command[c] = "hang" /\ pc[c] = "raised") =>
      /\ Len(AttemptsOf(c)) = 3
      /\ \A j \in DOMAIN AttemptsOf(c) :
           AttemptsOf(c)[j].error = "RuntimeError: Command timed out"
      /\ raised_error(c) = "RuntimeError: Command timed out"

C11_SpawnFailureIsDelivered ==
  /\ \A c \in Calls : \A j \in DOMAIN trace[c] :
       (trace[c][j].kind = "attempt" /\ trace[c][j].spawn # "process") =>
         trace[c][j].error = trace[c][j].spawn
  /\ processes = {}

\* C12: a call whose allowed attempts have all failed raises the failure of
\* its last attempt, the exception object that attempt `retries` raised,
\* and has returned no CliResult.
C12_LastFailureIsRaised ==
  \A c \in Calls :
    /\ pc[c] = "raised" =>
         LET last == AttemptsOf(c)[Len(AttemptsOf(c))] IN
           /\ last.index = retries[c]
           /\ raised_error(c) = last.error
           /\ last_error_attempt[c] = last.index
           /\ result[c] = <<>>
    /\ (AttemptsOf(c) # <<>>
          /\ \A j \in DOMAIN AttemptsOf(c) : AttemptsOf(c)[j].error # "") =>
         pc[c] # "returned" /\ result[c] = <<>>

\* C12 witness: a call has raised after three failed attempts.
C12_Witness ==
  \E c \in Calls :
    /\ pc[c] = "raised"
    /\ Len(AttemptsOf(c)) = 3
    /\ last_error_attempt[c] = 2
    /\ raised_error(c) = "UnboundLocalError"

\* C13: the failure a call raises once its attempts are used up carries the
\* command, the argument list, the number of attempts made and the stderr
\* of the last attempt.
C13_TerminalFailureIsDiagnosable ==
  \A c \in Calls :
    pc[c] = "raised" =>
      {"command", "args", "attempts", "stderr"}
        \subseteq error_message_parts(raised_error(c))

\* C20: the attempts of one call happen one at a time and in order: attempt
\* i+1 is started only when attempt i has its outcome (here always a
\* failure), and the registry never holds two processes of one call.
C20_AttemptsAreSequential ==
  \A c \in Calls :
    /\ \A j \in DOMAIN AttemptsOf(c) :
         /\ AttemptsOf(c)[j].index = j - 1
         /\ j < Len(AttemptsOf(c)) => AttemptsOf(c)[j].error # ""
    /\ Cardinality({p \in processes : p[1] = c}) <= 1

\* C20 witness: a call is in its third attempt, each of the two before it
\* having failed and been followed by its backoff sleep.
C20_Witness ==
  \E c \in Calls :
    /\ pc[c] = "try" /\ attempt[c] = 2
    /\ Len(AttemptsOf(c)) = 2
    /\ \A j \in 1..2 : AttemptsOf(c)[j].error = "UnboundLocalError"
    /\ Len(SleepsOf(c)) = 2

\* No descendant was created after the first invocation began.
NoForks == \A k \in Kids : forked[k] = ""

\* C14: a descendant created after the first enumeration and before the
\* grace period ended is enumerated after the grace period and killed: when
\* an invocation on a running parent has returned without any error, no
\* such descendant that may be signalled is running.
C14_LateDescendantIsKilled ==
  (kcalls = 1 /\ kpc = "done" /\ logged = <<>>
     /\ atCall.returncode = None /\ Parent \in atCall.alive) =>
    \A k \in Kids \ denied : forked[k] = "before_kill" => k \notin alive

\* C15: an error on one descendant does not stop the sweep: when an
\* invocation on a running parent that may be signalled has returned, every
\* process of the tree that ran when it began and may be signalled has
\* been terminated, whichever descendants may not be signalled.
C15_SweepGoesOnAfterAnError ==
  (kcalls = 1 /\ kpc = "done" /\ NoForks
     /\ atCall.returncode = None /\ Parent \in atCall.alive
     /\ Parent \notin denied) =>
    \A p \in atCall.alive \ denied : p \notin alive

C18_CleanupLeavesNothingRunning ==
  (cpc = "returned" /\ cleanup_tasks # {} /\ denied = {} /\ NoForks) =>
    processes = {} /\ alive \cap Tree = {}

\* C21: an attempt on a command that runs longer than the timeout ends
\* with the timeout failure (within the timeout plus the grace period).
C21_OverrunEndsInTimeoutFailure ==
  \A c \in Calls : \A j \in DOMAIN AttemptsOf(c) :
    command[c] = "hang" =>
      AttemptsOf(c)[j].error = "RuntimeError: Command timed out"

\* C22: the outcome of an attempt carries the output captured for it: the
\* failure of an attempt on a command that outlives the timeout carries the
\* partial stdout and stderr.
C22_FailureCarriesCapturedOutput ==
  \A c \in Calls : \A j \in DOMAIN AttemptsOf(c) :
    (command[c] = "hang" /\ AttemptsOf(c)[j].error # "") =>
      {"stdout", "stderr"} \subseteq error_message_parts(AttemptsOf(c)[j].error)

\* The fields C23 names.
MergedFields ==
  {"timeout", "retries", "retry_delay", "cwd", "expect_non_zero_exit",
   "shell", "log_output", "test_logger"}

\* C23: the options a run call merges have, in every field the caller's
\* options object sets, the caller's value, and in every field it leaves
\* unset (or when the caller passes no options), the value of the runner's
\* default options.
C23_MergeTakesPerCallElseDefault ==
  (entry = "run" /\ pc[Caller] # "idle") =>
    \A f \in MergedFields :
      merged[Caller][f] =
        IF caller_options # <<>> /\ f \in DOMAIN kwargs
        THEN kwargs[f] ELSE default_options[f]

\* The per-call env overlay of the call: that of the caller's options
\* object, none when the caller set none.
PerCallEnv ==
  IF caller_options # <<>> /\ "env" \in DOMAIN kwargs
  THEN kwargs["env"][1] ELSE EmptyDict
DefaultEnv ==
  IF default_options.env = None THEN EmptyDict ELSE default_options.env[1]

\* C24: the environment an attempt hands to the spawn call has exactly the
\* keys of the inherited environment, the runner-default overlay and the
\* per-call overlay, and for each key the per-call value if there is one,
\* else the default overlay's if there is one, else the inherited one.
C24_EnvIsLayered ==
  env[Caller] # <<>> =>
    /\ DOMAIN env[Caller][1] =
         DOMAIN os_environ \cup DOMAIN DefaultEnv \cup DOMAIN PerCallEnv
    /\ \A k \in DOMAIN env[Caller][1] :
         env[Caller][1][k] =
           IF k \in DOMAIN PerCallEnv THEN PerCallEnv[k]
           ELSE IF k \in DOMAIN DefaultEnv THEN DefaultEnv[k]
           ELSE os_environ[k]

\* C24 witness: an attempt was made with a key in all three layers that
\* got the per-call value, and with a key in the default overlay alone.
C24_Witness ==
  /\ env[Caller] # <<>>
  /\ \E k \in EnvKeys :
       /\ k \in DOMAIN os_environ \cap DOMAIN DefaultEnv \cap DOMAIN PerCallEnv
       /\ env[Caller][1][k] = "percall"
  /\ \E k \in EnvKeys :
       /\ k \in DOMAIN DefaultEnv \ (DOMAIN os_environ \cup DOMAIN PerCallEnv)
       /\ env[Caller][1][k] = "default"

\* C25: no event handed to a logging collaborator carries the client
\* secret given to az_login_service_principal (it is in the argument list
\* of the command) or the environment overlay.
C25_SecretIsNeverLogged ==
  \A j \in DOMAIN log[Caller] :
    /\ "env" \notin log[Caller][j].carries
    /\ "args" \in log[Caller][j].carries =>
         \A i \in DOMAIN args[Caller] : args[Caller][i] # "client_secret"

\* C26: the failure parse_json_output raises on output that is not valid
\* JSON is of another kind than the failure run raises on a nonzero exit
\* code.
C26_DecodeFailureIsOfItsOwnKind ==
  (entry = "parse_json_output" /\ json_out # "value") =>
    exception_class(json_out) #
      exception_class("RuntimeError: Command failed with exit code")

\* The events that report the outcome of an attempt (lines 91-98 and
\* 104-111), and those that sum up a call: run emits nothing after its
\* loop (lines 113-116).
ResultMessages ==
  {"CLI command completed successfully", "CLI command failed on attempt"}
SummaryMessages == {}
EventsOf(c, msgs) ==
  {j \in DOMAIN log[c] : log[c][j].msg \in msgs}

\* C27: when a run call has ended, exactly one result event was emitted for
\* each of its attempts, with the number of the attempt, and exactly one
\* summary event.
C27_OneEventPerAttemptAndOneSummary ==
  (entry = "run" /\ pc[Caller] = "raised") =>
    /\ \A a \in 1..Len(AttemptsOf(Caller)) :
         Cardinality({j \in EventsOf(Caller, ResultMessages) :
                        log[Caller][j].attempt = a}) = 1
    /\ Cardinality(EventsOf(Caller, SummaryMessages)) = 1

\* C28: a call suspended in the backoff sleep either wakes into its next
\* attempt or is cancelled; a cancelled call stays ended: it starts no
\* attempt and no sleep afterwards, the last thing it did is the sleep it
\* was cancelled in, and the registry holds no process of it.
C28_CancelDuringBackoffEndsTheCall ==
  [][\A c \in Calls :
       /\ pc[c] = "sleeping" => pc'[c] \in {"sleeping", "try", "cancelled"}
       /\ pc'[c] = "cancelled" =>
            /\ trace'[c] = trace[c]
            /\ trace[c][Len(trace[c])].kind = "sleep"
            /\ {p \in processes' : p[1] = c} = {}
       /\ pc[c] = "cancelled" => pc'[c] = "cancelled"]_vars

\* C28 witness: one call was cancelled in its second backoff sleep, and the
\* other call has gone on to raise since.
C28_Witness ==
  \E c, d \in Calls :
    /\ pc[c] = "cancelled" /\ Len(SleepsOf(c)) = 2 /\ Len(AttemptsOf(c)) = 2
    /\ d # c /\ pc[d] = "raised"

\* Signal sig was sent to process p before the j-th signal.
SentBefore(p, sig, j) ==
  \E i \in 1..(j - 1) : signals[i] = [pid |-> p, sig |-> sig]
\* The processes enumerated at line 242.
Enumerated == {children[i] : i \in DOMAIN children}

\* C30: in one invocation on a running parent, when the parent is sent the
\* graceful signal every enumerated child still running has been sent it
\* before, and when a process is sent the forceful signal every running
\* process of the enumerated tree has been sent the graceful one before
\* (processes that may not be signalled aside).
C30_ChildrenFirstThenForce ==
  (kcalls = 1 /\ atCall.returncode = None /\ Parent \in atCall.alive) =>
    \A j \in DOMAIN signals :
      /\ signals[j] = [pid |-> Parent, sig |-> "SIGTERM"] =>
           \A k \in (Enumerated \cap alive) \ denied :
             SentBefore(k, "SIGTERM", j)
      /\ signals[j].sig = "SIGKILL" =>
           \A p \in ((Enumerated \cup {Parent}) \cap alive) \ denied :
             SentBefore(p, "SIGTERM", j)

\* C29: a catalog helper or wait_for_pattern leaves the options object the
\* caller passed as the caller made it, and the runner's default options as
\* they were.
C29_HelpersLeaveOptionsAlone ==
  (entry \in Entries \ {"run"} /\ caller_options # <<>>) =>
    caller_options[1] = CliOptionsOf(kwargs)

\* The retry count C31 names: the per-call value if the caller set one, else
\* the runner default if there is one, else the configured maximum.
ResolvedR ==
  IF caller_options # <<>> /\ "retries" \in DOMAIN kwargs
  THEN kwargs["retries"][1]
  ELSE IF default_options.retries # None THEN default_options.retries[1]
  ELSE ConfigMaxRetries

\* C31: a run call starts at most R+1 attempts, R the resolved retry count,
\* and an attempt is followed by another only if it failed.
C31_AtMostResolvedRetriesPlusOne ==
  entry = "run" =>
    /\ Len(AttemptsOf(Caller)) <= ResolvedR + 1
    /\ \A j \in 1..(Len(AttemptsOf(Caller)) - 1) :
         AttemptsOf(Caller)[j].error # ""

\* C32: wait_for_pattern makes one attempt per poll: at no time have more
\* attempts been started than polls.
C32_OneAttemptPerPoll ==
  entry = "wait_for_pattern" => Len(AttemptsOf(Caller)) <= polls

\* C33: in wait_for_pattern the failure of a poll is passed over and the
\* loop goes on to its sleep; a poll is begun only while max_wait_time has
\* not passed; the call ends with the pattern-not-found failure, once
\* max_wait_time has passed, and never with a result that did not match (no
\* poll yields a result).
C33_PollingStopsAtTheDeadline ==
  [][entry = "wait_for_pattern" =>
       /\ pc[Caller] = "raised" => pc'[Caller] \in {"raised", "poll_sleep"}
       /\ polls' # polls => ~elapsed /\ polls' = polls + 1
       /\ (pc'[Caller] = "pattern_not_found" /\ pc[Caller] # "pattern_not_found")
            => elapsed /\ pc[Caller] \in {"poll_head", "poll_sleep"}
       /\ pc'[Caller] # "returned" /\ result'[Caller] = <<>>]_vars

\* C33 witness: two polls failed and were passed over, max_wait_time passed
\* during the second, and the call raised the pattern-not-found failure.
C33_Witness ==
  /\ entry = "wait_for_pattern"
  /\ pc[Caller] = "pattern_not_found"
  /\ polls = 2 /\ elapsed
  /\ Len(AttemptsOf(Caller)) >= 2

\* C35: every run call that was started ends: it returns a result or
\* raises (a cancelled call raises CancelledError), whatever its command
\* would do.
C35_EveryRunCallTerminates ==
  \A c \in Calls :
    (pc[c] # "idle") ~> (pc[c] \in {"returned", "raised", "cancelled"})

\* C35 witness: a call on a command that never exits has raised after all
\* its attempts, with backoff sleeps between them.
C35_Witness ==
  \E c \in Calls :
    /\ command[c] = "hang" /\ pc[c] = "raised"
    /\ Len(AttemptsOf(c)) = retries[c] + 1
    /\ Len(SleepsOf(c)) >= 1

\* C4: when _kill_process is called on a handle whose process has exited
\* while a descendant still runs, no process of the tree runs once the call
\* has returned.
C4_OrphanedDescendantIsTerminated ==
  (kcalls = 1 /\ kpc = "done" /\ Parent \notin atCall.alive
     /\ atCall.alive \cap Kids # {}) =>
    alive \cap Tree = {}

====
